---- MODULE Spec2Model ----
(***************************************************************************)
(* Model of the parquet-converter conversion core:                         *)
(*   converter.py  convert_file / convert_directory and the Polars         *)
(*                 pipeline sample -> stream -> verify -> profile, and     *)
(*                 the legacy pandas path;                                 *)
(*   parser.py     parse_file (dispatch on the suffix).                    *)
(* File names are sequences of one-character strings so that               *)
(* Path.suffix, str.lower and Path.glob are computed, not assumed.         *)
(* A source file is a sequence of lines, a line a sequence of fields.      *)
(***************************************************************************)
EXTENDS Integers, Sequences, FiniteSets, TLC

\* ------------------------------------------------------------------ bounds
MaxDirFiles == 2      \* largest number of entries in the input directory
MaxLimit == 1         \* largest profiling_column_limit tried
MaxNegLimit == 1      \* the smallest profiling_column_limit tried is -MaxNegLimit
MaxRows == 2          \* largest number of rows of a frame given to infer_dtypes

\* ---------------------------------------------------------- Optional[...]
None == <<>>
Some(x) == <<x>>
IsNone(o) == o = <<>>

\* -------------------------------------------------------- python helpers
Min(a, b) == IF a < b THEN a ELSE b
Max(a, b) == IF a > b THEN a ELSE b

\* seq[:k] for any integer k (negative k counts from the end)
SliceTo(s, k) ==
    LET n == Len(s)
        stop == IF k < 0 THEN Max(n + k, 0) ELSE Min(k, n)
    IN  SubSeq(s, 1, stop)

\* seq[k:] for any integer k (negative k counts from the end)
SliceFrom(s, k) ==
    LET n == Len(s)
        start == IF k < 0 THEN Max(n + k, 0) ELSE Min(k, n)
    IN  SubSeq(s, start + 1, n)

Range(s) == {s[i] : i \in 1..Len(s)}

UpperChars == <<"A","B","C","D","E","F","G","H","I","J","K","L","M",
                "N","O","P","Q","R","S","T","U","V","W","X","Y","Z">>
LowerChars == <<"a","b","c","d","e","f","g","h","i","j","k","l","m",
                "n","o","p","q","r","s","t","u","v","w","x","y","z">>

LowerChar(c) ==
    IF \E i \in 1..26 : UpperChars[i] = c
    THEN LowerChars[CHOOSE i \in 1..26 : UpperChars[i] = c]
    ELSE c

\* str.lower()
Lower(s) == [i \in 1..Len(s) |-> LowerChar(s[i])]

\* str.rfind("."), 1-based, 0 when there is no dot
RFindDot(name) ==
    IF \E i \in 1..Len(name) : name[i] = "."
    THEN CHOOSE i \in 1..Len(name) :
            /\ name[i] = "."
            /\ \A j \in (i+1)..Len(name) : name[j] # "."
    ELSE 0

\* pathlib.PurePath.suffix
Suffix(name) ==
    LET i == RFindDot(name)
    IN  IF 1 < i /\ i < Len(name) THEN SubSeq(name, i, Len(name)) ELSE <<>>

\* Path.glob("*" + ext): the pattern is matched against the whole entry
\* name, case-sensitively
GlobMatch(name, ext) ==
    /\ Len(name) >= Len(ext)
    /\ SubSeq(name, Len(name) - Len(ext) + 1, Len(name)) = ext

DotCsv == <<".", "c", "s", "v">>
DotTxt == <<".", "t", "x", "t">>
DotParquet == <<".", "p", "a", "r", "q", "u", "e", "t">>

\* mutant: the extension of the input is dropped from the output name
OutputPath_StemOnly(name) == SubSeq(name, 1, RFindDot(name) - 1) \o DotParquet

\* output_dir / f"{input_path.name}.parquet"
OutputPath(name) == name \o DotParquet

\* ------------------------------------------------ program constants
DEFAULT_SAMPLE_ROWS == 100000
DEFAULT_CHUNK_SIZE == 500000
DEFAULT_VERIFY_ROWS == 10
DEFAULT_COLUMN_LIMIT == 25

\* ------------------------------------------------ the files on disk
NameA == <<"a", ".", "c", "s", "v">>
NameB == <<"a", ".", "t", "x", "t">>
NameD == <<"D", ".", "C", "S", "V">>
NameC == <<"c", ".", "b", "i", "n">>

Names == {NameA, NameB, NameD, NameC}

\* the lines of each file, split into fields at the configured delimiter
Content(name) ==
    CASE name = NameA -> << <<"id", "name">>, <<"1", "Alice">>, <<"2", "Bob">> >>
      [] name = NameB -> << <<"k", "v", "w">>, <<"1", "x", "">>,
                            <<"1", "NA", "">>, <<"z", "x", "">> >>
      [] name = NameD -> << <<"h1", "h2">> >>
      [] name = NameC -> << <<"junk">> >>

\* the header line and the number of data lines of a file with a header row
HeaderOf(name) == Content(name)[1]
DataRows(name) == Len(Content(name)) - 1

\* ------------------------------------------------ cells and dtypes
Null == "<null>"
IntLits == {"0", "1", "2", "7", "-1", "07"}

\* ------------------------------------------------ configuration
\* the csv / txt option dictionaries (CSVOptions / TXTOptions fields the
\* conversion reads): header is Optional[int], na_values Optional[list],
\* dtypes Optional[dict] (given here by the names it maps to str)
DefaultOptions == [header |-> Some(0), skip_rows |-> 0, na_values |-> None, dtypes |-> None]
OptionSets ==
    { DefaultOptions,
      [DefaultOptions EXCEPT !.skip_rows = 1],
      [DefaultOptions EXCEPT !.header = None],
      [DefaultOptions EXCEPT !.na_values = Some(<<"", "NA", "NULL">>)] }

\* datetime_formats: {} (no key set), and the Config default
NoDatetimeFormats == [default |-> None, custom |-> <<>>]
DefaultDatetimeFormats == [default |-> Some("%Y-%m-%d"), custom |-> <<>>]
DatetimeFormatSets == {NoDatetimeFormats, DefaultDatetimeFormats}

SampleRows == {1, DEFAULT_SAMPLE_ROWS}
Limits == ((0 - MaxNegLimit)..MaxLimit) \cup {DEFAULT_COLUMN_LIMIT}

\* the configurations tried: the polars engine reads sample_rows and
\* profiling_column_limit, the pandas engine datetime_formats
PolarsConfigs ==
    [ engine : {"polars"},
      csv : OptionSets,
      txt : {DefaultOptions},
      datetime_formats : {DefaultDatetimeFormats},
      dtypes : {{}},
      compression : {"snappy"},
      sample_rows : SampleRows,
      chunk_size : {DEFAULT_CHUNK_SIZE},
      verify_rows : {DEFAULT_VERIFY_ROWS},
      profiling_column_limit : Limits ]

PandasConfigs ==
    [ engine : {"pandas"},
      csv : OptionSets,
      txt : {DefaultOptions},
      datetime_formats : DatetimeFormatSets,
      dtypes : {{}},
      compression : {"snappy"},
      sample_rows : {DEFAULT_SAMPLE_ROWS},
      chunk_size : {DEFAULT_CHUNK_SIZE},
      verify_rows : {DEFAULT_VERIFY_ROWS},
      profiling_column_limit : {DEFAULT_COLUMN_LIMIT} ]

Configs == PolarsConfigs \cup PandasConfigs

\* ------------------------------------------------ the Polars CSV reader
ColumnN == <<"column_1", "column_2", "column_3">>

\* an empty field, or a field equal to one of null_values, is read as null
PolarsCell(field, null_values) ==
    IF field = "" \/ (~IsNone(null_values) /\ field \in Range(null_values[1]))
    THEN Null ELSE field

\* dtype Polars infers for a column from the given cells
PolarsInferDtype(cells) ==
    LET nonnull == {c \in Range(cells) : c # Null}
    IN  IF nonnull # {} /\ nonnull \subseteq IntLits THEN "Int64" ELSE "String"

\* a cell that does not parse as the dtype of its column
PolarsMismatch(cell, dtype) == dtype = "Int64" /\ cell # Null /\ cell \notin IntLits

\* ignore_errors=True: a cell that does not parse as the column dtype is null
PolarsCast(cell, dtype) ==
    IF dtype = "Int64" /\ cell \notin IntLits THEN Null ELSE cell

ColumnCells(rows, j) == [i \in 1..Len(rows) |-> rows[i][j]]

\* pl.read_csv / pl.scan_csv over the lines of a file.
\*   n_rows    None or Some(k): read at most k data rows
\*   overrides None or Some(schema): dtypes by column name
\* Raises (ok = FALSE) when nothing is left to read after skip_rows, and,
\* unless ignore_errors is set, when a cell does not parse as its dtype.
PolarsReadCsv(lines, has_header, skip_rows, n_rows, null_values, overrides, ignore_errors) ==
    LET rest == SliceFrom(lines, Max(skip_rows, 0))
    IN  IF rest = <<>> THEN [ok |-> FALSE]
        ELSE
        LET width == Len(rest[1])
            columns == IF has_header THEN rest[1]
                       ELSE [j \in 1..width |-> ColumnN[j]]
            body == IF has_header THEN Tail(rest) ELSE rest
            taken == IF IsNone(n_rows) THEN body ELSE SliceTo(body, Max(n_rows[1], 0))
            raw == [i \in 1..Len(taken) |->
                      [j \in 1..width |-> PolarsCell(taken[i][j], null_values)]]
            probe == SliceTo(raw, DEFAULT_SAMPLE_ROWS)
            hinted(j) == /\ ~IsNone(overrides)
                         /\ \E k \in 1..Len(overrides[1]) : overrides[1][k][1] = columns[j]
            hint(j) == LET k == CHOOSE k \in 1..Len(overrides[1]) :
                                    overrides[1][k][1] = columns[j]
                       IN  overrides[1][k][2]
            dtypes == [j \in 1..width |->
                         IF hinted(j) THEN hint(j)
                         ELSE PolarsInferDtype(ColumnCells(probe, j))]
        IN  IF /\ ~ignore_errors
               /\ \E i \in 1..Len(raw), j \in 1..width : PolarsMismatch(raw[i][j], dtypes[j])
            THEN [ok |-> FALSE]
            ELSE [ok |-> TRUE,
                  columns |-> columns,
                  dtypes |-> dtypes,
                  rows |-> [i \in 1..Len(raw) |->
                              [j \in 1..width |-> PolarsCast(raw[i][j], dtypes[j])]]]

\* DataFrame.schema: the ordered (column, dtype) pairs
SchemaOf(table) == [j \in 1..Len(table.columns) |-> <<table.columns[j], table.dtypes[j]>>]

\* ------------------------------------------------ ConversionStats
NoStats == <<>>      \* an empty column_stats dictionary

ConversionStats(input_file, output_file, rows_processed, rows_converted, errors, warnings) ==
    [input_file |-> input_file,
     output_file |-> output_file,
     rows_processed |-> rows_processed,
     rows_converted |-> rows_converted,
     errors |-> errors,
     warnings |-> warnings,
     column_stats |-> NoStats]

\* ConversionStats.success
Success(stats) == Len(stats.errors) = 0

\* an error message: the pieces of the formatted text, in order; a suffix
\* interpolated into the text is kept beside it as characters
Message(pieces, suffix) == [text |-> pieces, suffix |-> suffix]
Contains(msg, piece) == \E i \in 1..Len(msg.text) : msg.text[i] = piece

\* f"Unsupported file type: {suffix}"
UnsupportedMessage(suffix) ==
    Message(<<"Unsupported file type", ": ", "{suffix}">>, suffix)

\* str(exc) of an exception raised by pandas or pyarrow
LibraryMessage == Message(<<"{exc}">>, <<>>)

StreamFailedMessage ==
    Message(<<"Conversion failed during streaming stage.">>, <<>>)

\* ------------------------------------------------ state
VARIABLES
    dir,          \* names of the entries of the input directory
    config,       \* the runtime configuration dictionary
    mode,         \* "idle", "file" (convert_file called), "dir" (convert_directory)
    pc,           \* position of the running call
    cur,          \* input_path.name of the file being converted
    input_files,  \* convert_directory: the discovered files, in loop order
    idx,          \* convert_directory: position of cur in input_files
    stats_list,   \* convert_directory: the outcomes appended so far
    result,       \* Optional: the ConversionStats convert_file returned
    raised,       \* an exception left the running call
    options,      \* Optional: the options _resolve_file_options returned
    schema,       \* Optional: the schema the sampler returned
    stream,       \* Optional: the tuple _stream_polars_conversion returned
    outFiles,     \* output path -> the parquet file written there
    phases,       \* the stages run for cur, in order
    faulted,      \* the stages of cur in which the environment failed
    log,          \* the (level, event) pairs logged by the running call
    infer,        \* parse_file on one frame: its inputs, position and result
    load          \* load_config / main: its inputs, position and result

vars == <<infer, load, dir, config, mode, pc, cur, input_files, idx, stats_list, result,
          raised, options, schema, stream, outFiles, phases, faulted, log>>

\* no call of convert_file or convert_directory is running
NoCall ==
    /\ mode = "idle"
    /\ pc = "idle"
    /\ cur = <<>>
    /\ input_files = <<>>
    /\ idx = 0
    /\ stats_list = <<>>
    /\ result = None
    /\ raised = FALSE
    /\ options = None
    /\ schema = None
    /\ stream = None
    /\ outFiles = <<>>
    /\ phases = <<>>
    /\ faulted = {}
    /\ log = {}

Init ==
    /\ dir \in {S \in SUBSET Names : Cardinality(S) <= MaxDirFiles}
    /\ config \in Configs
    /\ NoCall
    /\ infer = None
    /\ load = None

\* runtime_config = {**defaults, **config}; engine = ....lower()
Engine == IF config.engine = "pandas" THEN "pandas" ELSE "polars"

\* the local state of one convert_file call, at its entry
EnterConvertFile(name) ==
    /\ cur' = name
    /\ pc' = IF Engine = "pandas" THEN "pandas" ELSE "resolve"
    /\ result' = None
    /\ options' = None
    /\ schema' = None
    /\ stream' = None
    /\ phases' = <<>>
    /\ faulted' = {}
    /\ log' = {}

\* convert_file(input_path, output_dir, config) called on one path
CallConvertFile ==
    /\ pc = "idle"
    /\ \E name \in dir :
          /\ mode' = "file"
          /\ EnterConvertFile(name)
    /\ UNCHANGED <<infer, load, dir, config, input_files, idx, stats_list, raised, outFiles>>

\* the orders in which a directory listing can yield the entries of S
Orderings(S) == {s \in [1..Cardinality(S) -> S] : Range(s) = S}

\* mutant: every entry of the directory is collected
Discovered_Everything(listing) == Orderings(listing)

\* input_dir.glob("*.csv") then input_dir.glob("*.txt")
Discovered(listing) ==
    { s1 \o s2 : s1 \in Orderings({n \in listing : GlobMatch(n, DotCsv)}),
                 s2 \in Orderings({n \in listing : GlobMatch(n, DotTxt)}) }

\* convert_directory(input_dir, output_dir, config): discovery and the
\* first iteration of the loop, or the early return of []
CallConvertDirectory ==
    /\ pc = "idle"
    /\ mode' = "dir"
    /\ \E files \in Discovered(dir) :
          /\ input_files' = files
          /\ stats_list' = <<>>
          /\ IF files = <<>>
             THEN /\ pc' = "dir_returned"
                  /\ idx' = 0
                  /\ log' = {<<"warning", "No supported files found">>}
                  /\ UNCHANGED <<cur, result, options, schema, stream, phases, faulted>>
             ELSE /\ idx' = 1
                  /\ EnterConvertFile(files[1])
    /\ UNCHANGED <<infer, load, dir, config, raised, outFiles>>

\* stats_list.append(stats) and the next iteration, or return stats_list
LoopNext ==
    /\ pc = "returned"
    /\ mode = "dir"
    /\ stats_list' = Append(stats_list, result[1])
    /\ IF idx < Len(input_files)
       THEN /\ idx' = idx + 1
            /\ EnterConvertFile(input_files[idx + 1])
       ELSE /\ pc' = "dir_returned"
            /\ UNCHANGED <<idx, cur, result, options, schema, stream, phases, faulted, log>>
    /\ UNCHANGED <<infer, load, dir, config, mode, input_files, raised, outFiles>>

\* ------------------------------------------------ the Polars pipeline
\* mutant: a suffix that is not .csv falls through to the txt options
ResolveFileOptions_NoRaise(name) ==
    IF Lower(Suffix(name)) = DotCsv THEN Some(config.csv) ELSE Some(config.txt)

\* _resolve_file_options: Some(options), or None when it raises ValueError
ResolveFileOptions(name) ==
    LET suffix == Lower(Suffix(name))
    IN  IF suffix = DotCsv THEN Some(config.csv)
        ELSE IF suffix = DotTxt THEN Some(config.txt)
        ELSE None

\* mutant: has_header computed from the truth of header, so header=0 reads
\* the header line as data
BuildPolarsCsvKwargs_HeaderTruth(opts) ==
    [has_header |-> ~IsNone(opts.header) /\ opts.header[1] # 0,
     null_values |-> opts.na_values,
     skip_rows |-> opts.skip_rows,
     ignore_errors |-> TRUE]

\* mutant: a value that does not parse as the column dtype is an error
BuildPolarsCsvKwargs_Strict(opts) ==
    [has_header |-> ~IsNone(opts.header),
     null_values |-> opts.na_values,
     skip_rows |-> opts.skip_rows,
     ignore_errors |-> FALSE]

\* _build_polars_csv_kwargs: the keyword arguments the model reads
BuildPolarsCsvKwargs(opts) ==
    [has_header |-> ~IsNone(opts.header),
     null_values |-> opts.na_values,
     skip_rows |-> opts.skip_rows,
     ignore_errors |-> TRUE]

\* _convert_with_polars up to the call of the sampler: resolve the options,
\* or return the unsupported-file outcome
ResolveStep ==
    /\ pc = "resolve"
    /\ LET opts == ResolveFileOptions(cur)
       IN  IF IsNone(opts)
           THEN /\ result' = Some(ConversionStats(cur, OutputPath(cur), 0, 0,
                                    <<UnsupportedMessage(Lower(Suffix(cur)))>>, <<>>))
                /\ pc' = "returned"
                /\ UNCHANGED options
           ELSE /\ options' = opts
                /\ pc' = "sample"
                /\ UNCHANGED result
    /\ phases' = Append(phases, "resolve")
    /\ UNCHANGED <<infer, load, dir, config, mode, cur, input_files, idx, stats_list, raised,
                   schema, stream, outFiles, faulted, log>>

\* mutant: a failed sample ends the conversion with an error outcome
SampleStep_HardFailure ==
    /\ pc = "sample"
    /\ \E fault \in BOOLEAN :
          LET kwargs == BuildPolarsCsvKwargs(options[1])
              sample_df == PolarsReadCsv(Content(cur), kwargs.has_header, 0,
                                         Some(config.sample_rows), kwargs.null_values, None,
                                         FALSE)
              fails == fault \/ ~sample_df.ok
          IN  /\ schema' = IF fails THEN None ELSE Some(SchemaOf(sample_df))
              /\ log' = IF fails THEN log \cup {<<"warning", "Failed to analyze sample">>}
                        ELSE log
              /\ faulted' = IF fault THEN faulted \cup {"sample"} ELSE faulted
              /\ pc' = IF fails THEN "returned" ELSE "stream"
              /\ result' = IF fails
                           THEN Some(ConversionStats(cur, OutputPath(cur), 0, 0,
                                        <<Message(<<"Failed to analyze sample">>, <<>>)>>, <<>>))
                           ELSE result
    /\ phases' = Append(phases, "sample")
    /\ UNCHANGED <<infer, load, dir, config, mode, cur, input_files, idx, stats_list,
                   raised, options, stream, outFiles>>

\* _analyze_sample_with_polars: the schema of the first sample_rows rows,
\* or None when anything raises
SampleStep ==
    /\ pc = "sample"
    /\ \E fault \in BOOLEAN :
          LET kwargs == BuildPolarsCsvKwargs(options[1])
              sample_df == PolarsReadCsv(Content(cur), kwargs.has_header, 0,
                                         Some(config.sample_rows), kwargs.null_values, None,
                                         FALSE)
              fails == fault \/ ~sample_df.ok
          IN  /\ schema' = IF fails THEN None ELSE Some(SchemaOf(sample_df))
              /\ log' = IF fails THEN log \cup {<<"warning", "Failed to analyze sample">>}
                        ELSE log
              /\ faulted' = IF fault THEN faulted \cup {"sample"} ELSE faulted
    /\ phases' = Append(phases, "sample")
    /\ pc' = "stream"
    /\ UNCHANGED <<infer, load, dir, config, mode, cur, input_files, idx, stats_list, result,
                   raised, options, stream, outFiles>>

\* time.time() - start_time of a finished stream, in ticks
Elapsed == {1}

\* what can go wrong inside _stream_polars_conversion
StreamFaults == {"none", "scan", "sink", "count"}

ParquetFile(state, table) == [state |-> state, table |-> table]

\* `if schema:` -- a dictionary is true when it is not None and not empty
Truthy(s) == ~IsNone(s) /\ s[1] # <<>>

\* mutant: the sampled schema is not handed to scan_csv
StreamFrame_NoOverrides(name, opts, sampled) ==
    LET kwargs == BuildPolarsCsvKwargs(opts)
    IN  PolarsReadCsv(Content(name), kwargs.has_header, kwargs.skip_rows, None,
                      kwargs.null_values, None, kwargs.ignore_errors)

\* the frame scan_csv builds for a file: the options, and the sampled schema
\* as schema_overrides when there is one
StreamFrame(name, opts, sampled) ==
    LET kwargs == BuildPolarsCsvKwargs(opts)
    IN  PolarsReadCsv(Content(name), kwargs.has_header, kwargs.skip_rows, None,
                      kwargs.null_values, IF Truthy(sampled) THEN sampled ELSE None,
                      kwargs.ignore_errors)

\* mutant: only a failed scan is reported as a failure
StreamReturn_ScanOnly(kind, total_rows, elapsed) ==
    IF kind = "scan" THEN <<FALSE, 0, 0>> ELSE <<TRUE, total_rows, elapsed>>

\* the two return statements of _stream_polars_conversion: kind is "none"
\* when nothing raised
StreamReturn(kind, total_rows, elapsed) ==
    IF kind = "none" THEN <<TRUE, total_rows, elapsed>> ELSE <<FALSE, 0, 0>>

\* mutant: the outcome of a successful stream carries the streaming error
SuccessStats_WithError(input_file, output_file, total_rows, column_stats) ==
    [ConversionStats(input_file, output_file, total_rows, total_rows,
                     <<Message(<<"Conversion failed during streaming stage.">>, <<>>)>>, <<>>)
        EXCEPT !.column_stats = column_stats]

\* mutant: the outcome of a successful stream records the warnings logged
SuccessStats_WithWarnings(input_file, output_file, total_rows, column_stats) ==
    [ConversionStats(input_file, output_file, total_rows, total_rows, <<>>,
                     IF \E e \in log : e[1] = "warning"
                     THEN <<Message(<<"warning">>, <<>>)>> ELSE <<>>)
        EXCEPT !.column_stats = column_stats]

\* the outcome _convert_with_polars builds after a successful stream
SuccessStats(input_file, output_file, total_rows, column_stats) ==
    [ConversionStats(input_file, output_file, total_rows, total_rows, <<>>, <<>>)
        EXCEPT !.column_stats = column_stats]

\* _stream_polars_conversion, and the caller's branch on its success flag
StreamStep ==
    /\ pc = "stream"
    /\ \E fault \in StreamFaults, elapsed \in Elapsed :
          LET frame == StreamFrame(cur, options[1], schema)
              kind == IF ~frame.ok THEN "scan" ELSE fault
              out == OutputPath(cur)
              ret == StreamReturn(kind, IF frame.ok THEN Len(frame.rows) ELSE 0, elapsed)
          IN  /\ outFiles' =
                    CASE kind = "scan" -> outFiles
                      [] kind = "sink" -> (out :> ParquetFile("partial", frame)) @@ outFiles
                      [] OTHER -> (out :> ParquetFile("complete", frame)) @@ outFiles
              /\ stream' = Some(ret)
              /\ faulted' = IF fault # "none" /\ frame.ok
                            THEN faulted \cup {"stream"} ELSE faulted
              /\ log' = IF kind = "none" THEN log
                        ELSE log \cup {<<"error", "Streaming conversion failed">>}
              /\ IF ret[1]
                 THEN /\ pc' = "verify"
                      /\ UNCHANGED result
                 ELSE /\ pc' = "returned"
                      /\ result' = Some(ConversionStats(cur, out, 0, 0,
                                          <<StreamFailedMessage>>, <<>>))
    /\ phases' = Append(phases, "stream")
    /\ UNCHANGED <<infer, load, dir, config, mode, cur, input_files, idx, stats_list, raised,
                   options, schema>>

\* mutant: an exception of the verification leaves _verify_conversion
VerifyStep_Uncaught ==
    /\ pc = "verify"
    /\ \E fault \in BOOLEAN :
          LET out == OutputPath(cur)
              fails == fault \/ out \notin DOMAIN outFiles
                             \/ outFiles[out].state # "complete"
          IN  /\ faulted' = IF fault THEN faulted \cup {"verify"} ELSE faulted
              /\ pc' = IF fails THEN "raised" ELSE "profile"
              /\ raised' = fails
    /\ phases' = Append(phases, "verify")
    /\ UNCHANGED <<infer, load, dir, config, mode, cur, input_files, idx, stats_list, result,
                   options, schema, stream, outFiles, log>>

\* _verify_conversion: logs only; every exception is caught inside
VerifyStep ==
    /\ pc = "verify"
    /\ \E fault \in BOOLEAN :
          LET out == OutputPath(cur)
              fails == fault \/ out \notin DOMAIN outFiles
                             \/ outFiles[out].state # "complete"
          IN  /\ log' = IF fails THEN log \cup {<<"warning", "Unable to verify parquet output">>}
                        ELSE log
              /\ faulted' = IF fault THEN faulted \cup {"verify"} ELSE faulted
    /\ phases' = Append(phases, "verify")
    /\ pc' = "profile"
    /\ UNCHANGED <<infer, load, dir, config, mode, cur, input_files, idx, stats_list, result,
                   raised, options, schema, stream, outFiles>>

\* number of distinct values of a column, null counted as a value
NUnique(cells) == Cardinality(Range(cells))
\* number of null values of a column
NullCount(cells) == Cardinality({i \in 1..Len(cells) : cells[i] = Null})

ColumnIndex(table, column) == CHOOSE j \in 1..Len(table.columns) : table.columns[j] = column

\* mutant: the columns beyond the limit get no entry
CollectPolarsColumnStats_NoPlaceholders(table, column_limit) ==
    LET profiled_columns == SliceTo(table.columns, column_limit)
        cells(c) == ColumnCells(table.rows, ColumnIndex(table, c))
    IN  [c \in Range(profiled_columns) |->
            [dtype |-> table.dtypes[ColumnIndex(table, c)],
             unique_values |-> Some(NUnique(cells(c))),
             null_count |-> Some(NullCount(cells(c)))]]

\* _collect_polars_column_stats(output_path, column_limit) on a readable file
CollectPolarsColumnStats(table, column_limit) ==
    LET columns == table.columns
        profiled_columns == SliceTo(columns, column_limit)
        rest == SliceFrom(columns, column_limit)
        cells(c) == ColumnCells(table.rows, ColumnIndex(table, c))
        dtype(c) == table.dtypes[ColumnIndex(table, c)]
    IN  [c \in Range(profiled_columns) \cup Range(rest) |->
            IF c \in Range(rest)
            THEN [dtype |-> dtype(c), unique_values |-> None, null_count |-> None]
            ELSE [dtype |-> dtype(c),
                  unique_values |-> Some(NUnique(cells(c))),
                  null_count |-> Some(NullCount(cells(c)))]]

\* _convert_with_polars after verification: profile the output, build the
\* outcome and return it; an exception of the profiler is not caught
ProfileStep ==
    /\ pc = "profile"
    /\ \E fault \in BOOLEAN :
          LET out == OutputPath(cur)
              fails == fault \/ out \notin DOMAIN outFiles
                             \/ outFiles[out].state # "complete"
          IN  /\ faulted' = IF fault THEN faulted \cup {"profile"} ELSE faulted
              /\ IF fails
                 THEN /\ raised' = TRUE
                      /\ pc' = "raised"
                      /\ UNCHANGED result
                 ELSE /\ result' = Some(SuccessStats(cur, out, stream[1][2],
                                          CollectPolarsColumnStats(outFiles[out].table,
                                                                   config.profiling_column_limit)))
                      /\ pc' = "returned"
                      /\ UNCHANGED raised
    /\ phases' = Append(phases, "profile")
    /\ log' = log
    /\ UNCHANGED <<infer, load, dir, config, mode, cur, input_files, idx, stats_list,
                   options, schema, stream, outFiles>>

\* ------------------------------------------------ the pandas reader
\* A pandas cell is a pair (kind, payload): a number, a string, a parsed
\* timestamp, or the missing value (NaN, NaT and <NA> are one missing value
\* of a numeric / datetime column; NaT is kept apart inside object columns).
\* A number is <<whole, tenths>>: 7 is <<7, 0>>, 1.5 is <<1, 5>>.
NA == <<"na", "">>
NaT == <<"nat", "">>
IsNull(cell) == cell \in {NA, NaT}
Num(value) == <<"num", value>>
Str(text) == <<"str", text>>
Ts(date) == <<"ts", date>>            \* a timestamp parsed from a date text
TsEpoch(value) == <<"ts_ns", value>>  \* a number read as nanoseconds since the epoch
TsGuess(text) == <<"ts_guess", text>> \* what dateutil makes of a string of digits

\* the texts that read as numbers, and the number each denotes
NumTexts == IntLits \cup {"1.5"}
NumberOf(text) ==
    CASE text = "0" -> <<0, 0>>
      [] text = "1" -> <<1, 0>>
      [] text = "2" -> <<2, 0>>
      [] text = "7" -> <<7, 0>>
      [] text = "07" -> <<7, 0>>
      [] text = "-1" -> <<0 - 1, 0>>
      [] text = "1.5" -> <<1, 5>>

\* str(n) of an integer
StrOfInt(n) ==
    CASE n = 0 -> "0"
      [] n = 1 -> "1"
      [] n = 2 -> "2"
      [] n = 7 -> "7"
      [] n = 0 - 1 -> "-1"

PandasDefaultNA == {"", "NA", "NULL", "NaN", "nan", "null", "N/A", "n/a", "None"}
DefaultNaValues == <<"", "NA", "NULL">>
PositionalNames == <<"0", "1", "2">>

IsNA(field, na_values) == field \in PandasDefaultNA \cup Range(na_values)

\* pd.read_csv(..., header=, na_values=, skiprows=, dtype=): ok = FALSE when
\* it raises (nothing left to parse). dtype is None or Some(names): the
\* columns read as str. Otherwise a column of integers is int64, of
\* integers and missing values (or only missing values) float64, of numbers
\* float64, any other column (and every column of a table without rows)
\* object.
PandasReadCsv(lines, header, skip_rows, na_values, dtype) ==
    LET rest == SliceFrom(lines, Max(skip_rows, 0))
    IN  IF rest = <<>> THEN [ok |-> FALSE]
        ELSE
        LET width == Len(rest[1])
            columns == IF IsNone(header) THEN [j \in 1..width |-> PositionalNames[j]]
                       ELSE rest[1]
            body == IF IsNone(header) THEN rest ELSE Tail(rest)
            fields(j) == [i \in 1..Len(body) |-> body[i][j]]
            present(j) == {f \in Range(fields(j)) : ~IsNA(f, na_values)}
            asStr(j) == ~IsNone(dtype) /\ columns[j] \in dtype[1]
            dtypeOf(j) ==
                IF body = <<>> \/ asStr(j) THEN "object"
                ELSE IF present(j) \subseteq IntLits
                     THEN IF present(j) = Range(fields(j)) THEN "int64" ELSE "float64"
                     ELSE IF present(j) \subseteq NumTexts THEN "float64" ELSE "object"
            cell(f, j) == IF IsNA(f, na_values) THEN NA
                          ELSE IF dtypeOf(j) = "object" THEN Str(f) ELSE Num(NumberOf(f))
        IN  [ok |-> TRUE,
             columns |-> columns,
             dtypes |-> [j \in 1..width |-> dtypeOf(j)],
             rows |-> [i \in 1..Len(body) |->
                         [j \in 1..width |-> cell(body[i][j], j)]]]

\* parse_csv / parse_txt over the lines of a file
ParseLines(lines, opts) ==
    PandasReadCsv(lines, opts.header, opts.skip_rows,
                  IF IsNone(opts.na_values) THEN DefaultNaValues ELSE opts.na_values[1],
                  opts.dtypes)

ParseDelimited(name, opts) == ParseLines(Content(name), opts)

\* ------------------------------------------------ infer_dtypes
\* What the model leaves to the pandas build:
\*   digits_as_date  whether to_datetime reads a string of digits as a date
\*   strict_format   whether to_datetime applies the format guessed from the
\*                   first value to every value (pandas 2) or parses each
\*                   value on its own
\*   nat_to_numeric  to_numeric / astype("Int64") over a column of NaT objects
\*   nat_to_boolean  astype("boolean") over a column of NaT objects
LibChoices ==
    [digits_as_date : BOOLEAN,
     strict_format : BOOLEAN,
     nat_to_numeric : {"nan", "raises"},
     nat_to_boolean : {"ok", "raises"}]

\* [default] + custom, with None and empty formats filtered out
PossibleDtFormats(cfg) ==
    LET all == (IF IsNone(cfg.datetime_formats.default) THEN <<>>
                ELSE <<cfg.datetime_formats.default[1]>>) \o cfg.datetime_formats.custom
    IN  SelectSeq(all, LAMBDA fmt : fmt # "")

AllNull(cells) == \A i \in 1..Len(cells) : IsNull(cells[i])

\* the layout pandas / dateutil recognise in a text without a format
GuessedLayout(text) ==
    CASE text = "2023-01-05" -> "iso"
      [] text = "01/02/2023" -> "month_first"
      [] OTHER -> "none"

\* the date a text denotes when parsed without a format (month first)
GenericDate(text) ==
    CASE text = "2023-01-05" -> "2023-01-05"
      [] text = "01/02/2023" -> "2023-01-02"

\* datetime.strptime(text, fmt): the date, or "" when the text does not
\* match the format
StrpTime(text, fmt) ==
    CASE fmt = "%Y-%m-%d" /\ text = "2023-01-05" -> "2023-01-05"
      [] fmt = "%d/%m/%Y" /\ text = "01/02/2023" -> "2023-02-01"
      [] fmt = "%m/%d/%Y" /\ text = "01/02/2023" -> "2023-01-02"
      [] fmt = "due %Y-%m-%d" /\ text = "due 2023-01-05" -> "2023-01-05"
      [] OTHER -> ""

\* pd.to_datetime(column, errors="coerce")
ToDatetime(dtype, cells, lib) ==
    LET texts == {i \in 1..Len(cells) : cells[i][1] = "str"}
        first == IF texts = {} THEN "none"
                 ELSE GuessedLayout(cells[CHOOSE i \in texts : \A k \in texts : i <= k][2])
        one(cell) ==
            IF IsNull(cell) THEN NaT
            ELSE IF cell[1] = "num" THEN TsEpoch(cell[2])
            ELSE IF GuessedLayout(cell[2]) # "none"
                 THEN IF lib.strict_format /\ first # "none" /\ GuessedLayout(cell[2]) # first
                      THEN NaT ELSE Ts(GenericDate(cell[2]))
            ELSE IF cell[2] \in NumTexts /\ lib.digits_as_date
                    /\ ~(lib.strict_format /\ first # "none")
                 THEN TsGuess(cell[2])
            ELSE NaT
    IN  [i \in 1..Len(cells) |-> one(cells[i])]

\* pd.to_datetime(column, format=fmt, errors="coerce")
ToDatetimeFormat(cells, fmt) ==
    [i \in 1..Len(cells) |->
        IF cells[i][1] = "str" /\ StrpTime(cells[i][2], fmt) # ""
        THEN Ts(StrpTime(cells[i][2], fmt))
        ELSE NaT]

\* Series.astype(dtype) of a datetime64 column: casting to float raises
AstypeFromDatetimeRaises(dtype) == dtype = "float64"

\* pd.to_numeric(column, errors="coerce")
ToNumeric(cells) ==
    [i \in 1..Len(cells) |->
        IF IsNull(cells[i]) THEN NA
        ELSE IF cells[i][1] = "num" THEN cells[i]
        ELSE IF cells[i][1] = "str" /\ cells[i][2] \in NumTexts THEN Num(NumberOf(cells[i][2]))
        ELSE NA]

\* mutant: one integral value is enough for Int64
AllIntegral_Some(cells) == \E i \in 1..Len(cells) : ~IsNull(cells[i]) /\ cells[i][2][2] = 0

\* numeric_series.dropna().astype("int64").eq(numeric_series.dropna()).all()
AllIntegral(cells) == \A i \in 1..Len(cells) : IsNull(cells[i]) \/ cells[i][2][2] = 0

LowerText(text) ==
    CASE text = "Alice" -> "alice"
      [] text = "Bob" -> "bob"
      [] OTHER -> text

BoolTokens == {"true", "false", "1", "0"}
BoolOf(text) == IF LowerText(text) \in {"true", "1"} THEN "True" ELSE "False"

Column(dtype, cells) == [ok |-> TRUE, dtype |-> dtype, cells |-> cells]
Raises == [ok |-> FALSE]
\* an exception of the given class leaves the function
RaisesError(exc) == [ok |-> FALSE, exc |-> exc]

\* the rules after the datetime attempt, on the column as that attempt left it
InferAfterDatetime(dtype, cells, lib) ==
    LET natObjects == dtype = "object" /\ cells # <<>> /\ \A i \in 1..Len(cells) : cells[i] = NaT
        numeric_series == ToNumeric(cells)
        numericOk == IF natObjects THEN lib.nat_to_numeric = "nan"
                     ELSE \A i \in 1..Len(cells) : ~IsNull(cells[i]) => ~IsNull(numeric_series[i])
        potential_bools == \A i \in 1..Len(cells) :
                              IsNull(cells[i]) \/ LowerText(cells[i][2]) \in BoolTokens
        booleanOk == potential_bools /\ (natObjects => lib.nat_to_boolean = "ok")
    IN  IF numericOk
        THEN Column(IF AllIntegral(numeric_series) THEN "Int64" ELSE "float64", numeric_series)
        ELSE IF booleanOk
        THEN Column("boolean", [i \in 1..Len(cells) |->
                                   IF IsNull(cells[i]) THEN NA
                                   ELSE <<"bool", BoolOf(cells[i][2])>>])
        ELSE Column(dtype, cells)

\* the body of the loop of infer_dtypes for one column
InferColumn(name, dtype, cells, cfg, lib) ==
    LET formats == PossibleDtFormats(cfg)
        generic == ToDatetime(dtype, cells, lib)
    IN  IF name \in cfg.dtypes THEN Column(dtype, cells)
        ELSE IF formats = <<>> THEN InferAfterDatetime(dtype, cells, lib)
        ELSE IF ~AllNull(generic) THEN Column("datetime64[ns]", generic)
        ELSE IF AstypeFromDatetimeRaises(dtype) THEN Raises
        ELSE IF \E k \in 1..Len(formats) : ~AllNull(ToDatetimeFormat(generic, formats[k]))
        THEN Column("datetime64[ns]",
                    ToDatetimeFormat(generic,
                        formats[CHOOSE k \in 1..Len(formats) :
                            /\ ~AllNull(ToDatetimeFormat(generic, formats[k]))
                            /\ \A m \in 1..(k-1) : AllNull(ToDatetimeFormat(generic, formats[m]))]))
        ELSE InferAfterDatetime(dtype, generic, lib)

\* infer_dtypes(df, config): ok = FALSE when the loop raises
InferDtypes(df, cfg, lib) ==
    LET col(j) == InferColumn(df.columns[j], df.dtypes[j], ColumnCells(df.rows, j), cfg, lib)
        width == Len(df.columns)
    IN  IF \E j \in 1..width : ~col(j).ok THEN Raises
        ELSE [ok |-> TRUE,
              columns |-> df.columns,
              dtypes |-> [j \in 1..width |-> col(j).dtype],
              rows |-> [i \in 1..Len(df.rows) |-> [j \in 1..width |-> col(j).cells[i]]]]

\* parse_file(input_path, config): kind "unsupported" (ValueError of the
\* dispatch), "raises" (the reader or infer_dtypes raised) or "ok" with df
ParseFile(name, cfg, lib) ==
    LET file_type == Lower(Suffix(name))
        parsed == IF file_type = DotCsv THEN ParseDelimited(name, cfg.csv)
                  ELSE ParseDelimited(name, cfg.txt)
        inferred == InferDtypes(parsed, cfg, lib)
    IN  IF file_type # DotCsv /\ file_type # DotTxt
        THEN [kind |-> "unsupported", suffix |-> file_type]
        ELSE IF ~parsed.ok THEN [kind |-> "raises"]
        ELSE IF ~inferred.ok THEN [kind |-> "raises"]
        ELSE [kind |-> "ok", df |-> inferred]

\* ------------------------------------------------ the legacy pandas path
PandasFaults == {"none", "parse", "write"}

\* the column_stats loop of _convert_with_pandas
PandasColumnStats(df) ==
    [c \in Range(df.columns) |->
        LET cells == ColumnCells(df.rows, ColumnIndex(df, c))
        IN  [dtype |-> df.dtypes[ColumnIndex(df, c)],
             unique_values |-> Some(Cardinality(Range(cells))),
             null_count |-> Some(Cardinality({i \in 1..Len(cells) : IsNull(cells[i])}))]]

\* _convert_with_pandas: parse, write, build the outcome; every exception
\* is caught and becomes the single error of the outcome
PandasStep ==
    /\ pc = "pandas"
    /\ \E fault \in PandasFaults, lib \in LibChoices :
          LET out == OutputPath(cur)
              parsed == ParseFile(cur, config, lib)
              failed(msg) == Some(ConversionStats(cur, out, 0, 0, <<msg>>, <<>>))
              logged == log \cup {<<"error", "Error converting">>}
          IN  CASE parsed.kind = "unsupported" ->
                     /\ fault = "none"
                     /\ result' = failed(UnsupportedMessage(parsed.suffix))
                     /\ log' = logged
                     /\ UNCHANGED <<outFiles, faulted>>
                [] parsed.kind = "raises" ->
                     /\ fault = "none"
                     /\ result' = failed(LibraryMessage)
                     /\ log' = logged
                     /\ UNCHANGED <<outFiles, faulted>>
                [] parsed.kind = "ok" /\ fault = "parse" ->
                     /\ result' = failed(LibraryMessage)
                     /\ log' = logged
                     /\ faulted' = faulted \cup {"parse"}
                     /\ UNCHANGED outFiles
                [] parsed.kind = "ok" /\ fault = "write" ->
                     /\ result' = failed(LibraryMessage)
                     /\ log' = logged
                     /\ faulted' = faulted \cup {"write"}
                     /\ outFiles' = (out :> ParquetFile("partial", parsed.df)) @@ outFiles
                [] OTHER ->
                     /\ result' = Some(
                            [ConversionStats(cur, out, Len(parsed.df.rows),
                                             Len(parsed.df.rows), <<>>, <<>>)
                               EXCEPT !.column_stats = PandasColumnStats(parsed.df)])
                     /\ log' = log
                     /\ outFiles' = (out :> ParquetFile("complete", parsed.df)) @@ outFiles
                     /\ UNCHANGED faulted
    /\ phases' = Append(phases, "pandas")
    /\ pc' = "returned"
    /\ UNCHANGED <<infer, load, dir, config, mode, cur, input_files, idx, stats_list, raised,
                   options, schema, stream>>

\* ------------------------------------------------ specification
Next ==
    \/ CallConvertFile
    \/ CallConvertDirectory
    \/ LoopNext
    \/ ResolveStep
    \/ SampleStep
    \/ StreamStep
    \/ VerifyStep
    \/ ProfileStep
    \/ PandasStep

Spec == Init /\ [][Next]_vars

\* ------------------------------------------------ parse_file on one column
\* Second specification: parse_csv and infer_dtypes applied to a frame of
\* one column "c" whose raw values are drawn from RawTexts.
RawTexts == {"1", "0", "-1", "07", "1.5", "x", "", "NA",
             "2023-01-05", "01/02/2023", "due 2023-01-05"}
RawColumns == UNION {[1..n -> RawTexts] : n \in 0..MaxRows}

InferFormatSets ==
    { NoDatetimeFormats,
      DefaultDatetimeFormats,
      [default |-> Some("%d/%m/%Y"), custom |-> <<"%m/%d/%Y">>],
      [default |-> Some("due %Y-%m-%d"), custom |-> <<"%Y-%m-%d">>] }

\* how the frame reaches infer_dtypes:
\*   "parse"       parse_file with the default csv options
\*   "parse_str"   parse_file with csv.dtypes = {"c": "str"}
\*   "parse_skip"  parse_file with config["dtypes"] = {"c": ...}
\*   "frame"       infer_dtypes called on a DataFrame of strings and None
InferCalls == {"parse", "parse_str", "parse_skip", "frame"}

InferConfig(call, formats) ==
    [csv |-> [DefaultOptions EXCEPT !.dtypes = IF call = "parse_str" THEN Some({"c"}) ELSE None],
     datetime_formats |-> formats,
     dtypes |-> IF call = "parse_skip" THEN {"c"} ELSE {}]

\* the configuration of the calls of the other specifications
DefaultConfig ==
    CHOOSE c \in PolarsConfigs :
        /\ c.csv = DefaultOptions
        /\ c.sample_rows = DEFAULT_SAMPLE_ROWS
        /\ c.profiling_column_limit = DEFAULT_COLUMN_LIMIT

InferInit ==
    /\ infer \in [pc : {"start"}, call : InferCalls, raw : RawColumns,
                  formats : InferFormatSets, frame : {None}, out : {None}]
    /\ load = None
    /\ dir = {}
    /\ config = DefaultConfig
    /\ NoCall

\* parse_csv: pd.read_csv over the header line "c" and the raw values
ParseCsvStep ==
    /\ infer.pc = "start"
    /\ infer.call # "frame"
    /\ LET lines == <<<<"c">>>> \o [i \in 1..Len(infer.raw) |-> <<infer.raw[i]>>]
           cfg == InferConfig(infer.call, infer.formats)
       IN  infer' = [infer EXCEPT !.pc = "parsed",
                                  !.frame = Some(ParseLines(lines, cfg.csv))]
    /\ UNCHANGED <<load, dir, config, mode, pc, cur, input_files, idx, stats_list,
                   result, raised, options, schema, stream, outFiles, phases,
                   faulted, log>>

\* pd.DataFrame({"c": [...]}): strings, with None for the null tokens
FrameStep ==
    /\ infer.pc = "start"
    /\ infer.call = "frame"
    /\ infer' = [infer EXCEPT
            !.pc = "parsed",
            !.frame = Some([ok |-> TRUE, columns |-> <<"c">>, dtypes |-> <<"object">>,
                            rows |-> [i \in 1..Len(infer.raw) |->
                                        <<IF infer.raw[i] \in {"", "NA"} THEN NA
                                          ELSE Str(infer.raw[i])>>]])]
    /\ UNCHANGED <<load, dir, config, mode, pc, cur, input_files, idx, stats_list,
                   result, raised, options, schema, stream, outFiles, phases,
                   faulted, log>>

\* infer_dtypes(df, config)
InferStep ==
    /\ infer.pc = "parsed"
    /\ \E lib \in LibChoices :
          infer' = [infer EXCEPT
              !.pc = "done",
              !.out = Some(InferDtypes(infer.frame[1],
                                       InferConfig(infer.call, infer.formats), lib))]
    /\ UNCHANGED <<load, dir, config, mode, pc, cur, input_files, idx, stats_list,
                   result, raised, options, schema, stream, outFiles, phases,
                   faulted, log>>

InferNext ==
    \/ ParseCsvStep
    \/ FrameStep
    \/ InferStep

InferSpec == InferInit /\ [][InferNext]_vars

\* ------------------------------------------------ load_config and main
UpperChar(c) ==
    IF \E i \in 1..26 : LowerChars[i] = c
    THEN UpperChars[CHOOSE i \in 1..26 : LowerChars[i] = c]
    ELSE c

\* str.upper()
Upper(s) == [i \in 1..Len(s) |-> UpperChar(s[i])]

LevelDebug == <<"D", "E", "B", "U", "G">>
LevelInfo == <<"I", "N", "F", "O">>
LevelWarning == <<"W", "A", "R", "N", "I", "N", "G">>
LevelError == <<"E", "R", "R", "O", "R">>
LevelCritical == <<"C", "R", "I", "T", "I", "C", "A", "L">>
ValidLevels == {LevelDebug, LevelInfo, LevelWarning, LevelError, LevelCritical}

\* the defaults of the Config fields
ConfigDefaults ==
    [log_level |-> Some(LevelInfo), compression |-> Some("snappy"),
     engine |-> Some("polars"),
     sample_rows |-> Some(DEFAULT_SAMPLE_ROWS), output_dir |-> None]

ConfigKeys == {"log_level", "compression", "engine", "sample_rows", "output_dir"}

\* the values of --config tried: an existing YAML file, an existing file
\* with another extension, and a JSON path where no file exists
ConfigYaml == <<"c", ".", "y", "a", "m", "l">>
ConfigIni == <<"c", ".", "i", "n", "i">>
ConfigGone == <<"g", ".", "j", "s", "o", "n">>
ConfigPaths == {None, Some(ConfigYaml), Some(ConfigIni), Some(ConfigGone)}
ExistingConfigs == {ConfigYaml, ConfigIni}
ConfigSuffixes == {<<".", "y", "a", "m", "l">>, <<".", "y", "m", "l">>,
                   <<".", "j", "s", "o", "n">>}

\* config_dict = {}: no key present
EmptyDict == [k \in ConfigKeys |-> None]

\* the configuration files tried: each key absent (None) or present
FileDicts ==
    [log_level : {None, Some(<<"d", "e", "b", "u", "g">>)},
     compression : {None, Some("gzip")},
     engine : {None, Some("polars")},
     sample_rows : {None, Some(5), Some(0)},
     output_dir : {None, Some("/f")}]

\* the environments tried: each variable unset (None) or set to a text
Environments ==
    [log_level : {None, Some(<<"w", "a", "r", "n", "i", "n", "g">>),
                  Some(<<"l", "o", "u", "d">>)},
     compression : {None, Some("zstd")},
     engine : {None, Some("pandas"), Some("spark")},
     sample_rows : {None, Some("7"), Some("-1"), Some("x")},
     output_dir : {None, Some("/e")}]

\* the values of --output-dir tried (None: the option is not given)
CliOutputDirs == {None, Some("/c"), Some("")}

\* Path(text), printed
PathOf(text) == IF text = "" THEN "." ELSE text

\* int(text); None when int() raises ValueError
IntOf(text) == IF text \in IntLits THEN Some(NumberOf(text)[1]) ELSE None

\* _coerce_env_int
CoerceEnvInt(value) ==
    IF IsNone(value) THEN [ok |-> TRUE, value |-> None]
    ELSE IF IsNone(IntOf(value[1])) THEN RaisesError("ValueError")
    ELSE [ok |-> TRUE, value |-> IntOf(value[1])]

\* env_config: the variables as load_config reads them
EnvConfig(env) ==
    [log_level |-> env.log_level, compression |-> env.compression,
     engine |-> env.engine,
     sample_rows |-> CoerceEnvInt(env.sample_rows).value,
     output_dir |-> env.output_dir]

\* for key, value in env_config.items(): if value is not None: config_dict[key] = value
\* (an absent key of the file is None here)
MergeEnv_FileFirst(file, env_config) ==
    [k \in ConfigKeys |-> IF ~IsNone(file[k]) THEN file[k] ELSE env_config[k]]

MergeEnv(file, env_config) ==
    [k \in ConfigKeys |-> IF ~IsNone(env_config[k]) THEN env_config[k] ELSE file[k]]

\* Config(**config_dict): defaults for absent keys, then the field validators
ValidateConfig(config_dict) ==
    LET given == [k \in ConfigKeys |->
                    IF IsNone(config_dict[k]) THEN ConfigDefaults[k] ELSE config_dict[k]]
    IN  IF Upper(given.log_level[1]) \notin ValidLevels THEN RaisesError("ValueError")
        ELSE IF given.engine[1] \notin {"polars", "pandas"} THEN RaisesError("ValueError")
        ELSE IF given.sample_rows[1] <= 0 THEN RaisesError("ValueError")
        ELSE [ok |-> TRUE,
              log_level |-> Upper(given.log_level[1]),
              compression |-> given.compression[1],
              engine |-> given.engine[1],
              sample_rows |-> given.sample_rows[1],
              output_dir |-> IF IsNone(given.output_dir) THEN None
                             ELSE Some(PathOf(given.output_dir[1]))]

\* mutant: a configuration that does not validate is replaced by the defaults
ValidateConfig_Lenient(config_dict) ==
    IF ValidateConfig(config_dict).ok THEN ValidateConfig(config_dict)
    ELSE ValidateConfig(EmptyDict)

\* the Config built from the merged dictionary
BuildConfig(config_dict) == ValidateConfig(config_dict)

\* load_config(config_path); file is the dictionary the file at config_path
\* holds
LoadConfig(config_path, file, env) ==
    IF ~IsNone(config_path) /\ Suffix(config_path[1]) \notin ConfigSuffixes
        THEN RaisesError("ValueError")
    ELSE IF ~IsNone(config_path) /\ config_path[1] \notin ExistingConfigs
        THEN RaisesError("FileNotFoundError")
    ELSE IF ~CoerceEnvInt(env.sample_rows).ok THEN RaisesError("ValueError")
    ELSE BuildConfig(MergeEnv(IF IsNone(config_path) THEN EmptyDict ELSE file,
                              EnvConfig(env)))

\* what main does after the configuration is resolved: the input path is a
\* file or a directory and is converted (with or without failed outcomes), or
\* it does not exist
MainRuns == {"converted", "converted_with_errors", "no_input"}

\* main: the output directory after the --output-dir override
MainOutputDir(cfg, cli, input_is_file) ==
    IF ~IsNone(cli) /\ cli[1] # "" THEN PathOf(cli[1])
    ELSE IF IsNone(cfg.output_dir)
         THEN (IF input_is_file THEN "/in/output" ELSE "/in/d/output")
         ELSE cfg.output_dir[1]

ConfigInit ==
    /\ load \in [pc : {"start"}, path : ConfigPaths, file : FileDicts,
                 env : Environments, cli : CliOutputDirs, input_is_file : BOOLEAN,
                 loaded : {None}, output_dir : {None}, attempted : {FALSE},
                 exit : {None}]
    /\ load.path # Some(ConfigYaml) => load.file = EmptyDict
    /\ infer = None
    /\ dir = {}
    /\ config = DefaultConfig
    /\ NoCall

\* main: config = load_config(parsed_args.config)
LoadConfigStep ==
    /\ load.pc = "start"
    /\ LET cfg == LoadConfig(load.path, load.file, load.env)
       IN  load' = [load EXCEPT !.pc = IF cfg.ok THEN "loaded" ELSE "raised",
                                !.loaded = Some(cfg),
                                !.exit = IF cfg.ok THEN None ELSE Some(1)]
    /\ UNCHANGED <<infer, dir, config, mode, pc, cur, input_files, idx, stats_list,
                   result, raised, options, schema, stream, outFiles, phases,
                   faulted, log>>

\* main: if parsed_args.output_dir: ... elif not config.output_dir: ...
MainOutputDirStep ==
    /\ load.pc = "loaded"
    /\ load' = [load EXCEPT
            !.pc = "main",
            !.output_dir = Some(MainOutputDir(load.loaded[1], load.cli,
                                              load.input_is_file))]
    /\ UNCHANGED <<infer, dir, config, mode, pc, cur, input_files, idx, stats_list,
                   result, raised, options, schema, stream, outFiles, phases,
                   faulted, log>>

\* main: convert_file / convert_directory on the input path, and the exit code
MainConvertStep ==
    /\ load.pc = "main"
    /\ \E run \in MainRuns :
          load' = [load EXCEPT !.pc = "exited",
                               !.attempted = run # "no_input",
                               !.exit = IF run = "converted" THEN Some(0) ELSE Some(1)]
    /\ UNCHANGED <<infer, dir, config, mode, pc, cur, input_files, idx, stats_list,
                   result, raised, options, schema, stream, outFiles, phases,
                   faulted, log>>

ConfigNext ==
    \/ LoadConfigStep
    \/ MainOutputDirStep
    \/ MainConvertStep

ConfigSpec == ConfigInit /\ [][ConfigNext]_vars

\* ------------------------------------------------ properties
\* the convert_file call for cur has ended: it returned result, or raised
Returned == pc \in {"returned", "dir_returned"} /\ ~IsNone(result)
Finished == Returned \/ pc = "raised"
Outcome == result[1]

\* the suffix test convert_file applies to a path
Supported(name) == Lower(Suffix(name)) \in {DotCsv, DotTxt}

\* every outcome the running call has produced so far
Outcomes == Range(stats_list) \cup (IF IsNone(result) THEN {} ELSE {result[1]})

\* the options of the file being converted are the defaults: the first
\* line is read as the header and no leading line is skipped
DefaultParse ==
    LET opts == IF Lower(Suffix(cur)) = DotCsv THEN config.csv ELSE config.txt
    IN  opts.header = Some(0) /\ opts.skip_rows = 0

\* C1: for a path whose lower-cased suffix is neither .csv nor .txt,
\* convert_file (either engine) does not raise and returns an outcome with
\* exactly one error, which contains "Unsupported file type", and with
\* rows_processed = rows_converted = 0.
C1_UnsupportedOutcome ==
    (Finished /\ ~Supported(cur)) =>
        /\ Returned
        /\ Len(Outcome.errors) = 1
        /\ Contains(Outcome.errors[1], "Unsupported file type")
        /\ Outcome.rows_processed = 0
        /\ Outcome.rows_converted = 0

C1_Witness ==
    /\ Returned
    /\ ~Supported(cur)
    /\ Engine = "polars"
    /\ Len(Outcome.errors) = 1
    /\ Outcome.errors[1].suffix = <<".", "b", "i", "n">>

C3_AllOrNothing ==
    \A o \in Outcomes :
        \/ o.errors = <<>>
        \/ /\ Len(o.errors) >= 1
           /\ o.rows_processed = 0
           /\ o.rows_converted = 0

C3_Witness ==
    /\ pc = "dir_returned"
    /\ Len(stats_list) = 2
    /\ stats_list[1].errors # <<>>
    /\ stats_list[1].rows_processed = 0
    /\ stats_list[2].errors = <<>>
    /\ stats_list[2].rows_processed = 3

\* the stream stage of cur raised: the environment failed in it, or the
\* scan found nothing to read
StreamRaised ==
    /\ "stream" \in Range(phases)
    /\ \/ "stream" \in faulted
       \/ ~StreamFrame(cur, options[1], schema).ok

\* C4: in the streaming path, if a step of the stream stage raises (scan,
\* sink or the row count read back), _stream_polars_conversion returns
\* (False, 0, 0.0), convert_file returns an outcome with exactly one error
\* and zero row counts, and neither the Verifier nor the Profiler runs.
C4_StreamFailure ==
    StreamRaised =>
        /\ Returned
        /\ stream = Some(<<FALSE, 0, 0>>)
        /\ Len(Outcome.errors) = 1
        /\ Outcome.rows_processed = 0
        /\ Outcome.rows_converted = 0
        /\ "verify" \notin Range(phases)
        /\ "profile" \notin Range(phases)

C4_Witness ==
    /\ Returned
    /\ "stream" \in faulted
    /\ OutputPath(cur) \in DOMAIN outFiles
    /\ outFiles[OutputPath(cur)].state = "complete"
    /\ Outcome.errors = <<StreamFailedMessage>>

\* C5: a failure of the Profiler after a successful stream stage never
\* fails the file's outcome: convert_file does not raise, and returns an
\* outcome with empty errors and the streamed row count.
C5_ProfilerFailureTolerated ==
    "profile" \in faulted =>
        /\ ~raised
        /\ Returned =>
              /\ Outcome.errors = <<>>
              /\ Outcome.rows_processed = stream[1][2]
              /\ Outcome.rows_converted = stream[1][2]

\* C6: a failure inside the Verifier is caught inside the Verifier and
\* never fails the conversion: no exception leaves the Verifier, the
\* Profiler still runs, and the outcome returned has no error and the
\* streamed row counts, as when verification succeeds.
C6_VerifierFailureTolerated ==
    ("verify" \in faulted /\ "profile" \notin faulted) =>
        /\ ~raised
        /\ pc = "profile" \/ "profile" \in Range(phases)
        /\ Returned =>
              /\ Outcome.errors = <<>>
              /\ Outcome.rows_processed = stream[1][2]
              /\ Outcome.rows_converted = stream[1][2]

C6_Witness ==
    /\ Returned
    /\ "verify" \in faulted
    /\ <<"warning", "Unable to verify parquet output">> \in log
    /\ Outcome.errors = <<>>
    /\ Outcome.rows_converted = 2

\* C7: if sampling fails, the Schema Sampler returns "no schema" instead of
\* raising, the stream stage still runs, without schema hints, and the
\* failure adds no error to the outcome: the outcome has an error exactly
\* when the stream stage failed.
C7_SamplerSoftFail ==
    "sample" \in faulted =>
        /\ IsNone(schema)
        /\ pc = "stream" \/ "stream" \in Range(phases)
        /\ Returned =>
              /\ (Outcome.errors = <<>>) <=> stream[1][1]
              /\ Outcome.errors # <<>> => Outcome.errors = <<StreamFailedMessage>>

C7_Witness ==
    /\ Returned
    /\ "sample" \in faulted
    /\ "stream" \notin faulted
    /\ IsNone(schema)
    /\ Outcome.errors = <<>>
    /\ Outcome.rows_converted = 3

\* C8: for an output file with columns c1..cn and a profiling limit L >= 1,
\* the profiling map has exactly the keys c1..cn; the first min(L, n)
\* columns in schema order carry the number of distinct values and the
\* number of nulls of that column of the output file, and every later column
\* carries its dtype with unique_values = null_count = None.
C8_ProfilingMap ==
    (Returned /\ Engine = "polars" /\ Outcome.errors = <<>>
        /\ config.profiling_column_limit >= 1) =>
        LET table == outFiles[OutputPath(cur)].table
            n == Len(table.columns)
            m == Min(config.profiling_column_limit, n)
            stats == Outcome.column_stats
        IN  /\ DOMAIN stats = {table.columns[j] : j \in 1..n}
            /\ \A j \in 1..n :
                  LET info == stats[table.columns[j]]
                  IN  /\ info.dtype = table.dtypes[j]
                      /\ IF j <= m
                         THEN /\ info.unique_values =
                                    <<Cardinality({table.rows[i][j] : i \in 1..Len(table.rows)})>>
                              /\ info.null_count =
                                    <<Cardinality({i \in 1..Len(table.rows) :
                                                      table.rows[i][j] = Null})>>
                         ELSE /\ info.unique_values = None
                              /\ info.null_count = None

C8_Witness ==
    /\ Returned
    /\ cur = NameB
    /\ Engine = "polars"
    /\ config.profiling_column_limit = 1
    /\ DOMAIN Outcome.column_stats = {"k", "v", "w"}
    /\ Outcome.column_stats["k"].null_count = Some(1)
    /\ Outcome.column_stats["v"].unique_values = None
    /\ Outcome.column_stats["w"].null_count = None

\* C9: in convert_directory the failure of one file never aborts the batch:
\* whatever fails for a file (unsupported input, parse, stream, verification
\* or profiling), convert_directory does not raise and returns exactly one
\* outcome per discovered file, in order.
C9_BatchNeverAborts ==
    mode = "dir" =>
        /\ ~raised
        /\ pc = "dir_returned" =>
              /\ Len(stats_list) = Len(input_files)
              /\ \A i \in 1..Len(input_files) : stats_list[i].input_file = input_files[i]

\* C10: convert_directory attempts conversion only for the entries of the
\* input directory whose names end in .csv or .txt: an entry with any other
\* extension gets no outcome and no output file, and a directory without a
\* matching entry yields the empty list.
C10_OnlyMatchingFiles ==
    mode = "dir" =>
        /\ \A n \in dir :
              Suffix(n) \notin {DotCsv, DotTxt} =>
                  /\ cur # n
                  /\ \A i \in 1..Len(stats_list) : stats_list[i].input_file # n
                  /\ \A i \in 1..Len(input_files) : input_files[i] # n
                  /\ OutputPath(n) \notin DOMAIN outFiles
        /\ (pc = "dir_returned" /\ \A n \in dir : Suffix(n) \notin {DotCsv, DotTxt})
              => stats_list = <<>>

C10_Witness ==
    /\ pc = "dir_returned"
    /\ dir = {NameA, NameC}
    /\ Len(stats_list) = 1
    /\ stats_list[1].input_file = NameA
    /\ stats_list[1].errors = <<>>
    /\ DOMAIN outFiles = {OutputPath(NameA)}

\* C11: whenever convert_file returns an outcome with a non-empty errors
\* list, no valid, complete output file exists at the outcome's output path
\* when the call returns.
C11_NoOutputOnFailure ==
    (Returned /\ Outcome.errors # <<>>) =>
        ~(/\ Outcome.output_file \in DOMAIN outFiles
          /\ outFiles[Outcome.output_file].state = "complete")

\* the files for which convert_file has been entered in the running call
Attempted ==
    IF mode = "dir" THEN {input_files[i] : i \in 1..idx}
    ELSE IF cur = <<>> THEN {} ELSE {cur}

\* C12: each conversion writes exactly one output file, at
\* <input file name, extension included>.parquet; within one
\* convert_directory run distinct inputs have distinct output paths, and the
\* file at an input's output path holds that input's columns and rows only.
C12_OneOutputPerInput ==
    LET expected(n) == n \o <<".", "p", "a", "r", "q", "u", "e", "t">>
    IN  /\ \A o \in Outcomes :
              /\ o.output_file = expected(o.input_file)
              /\ o.errors = <<>> =>
                    /\ o.output_file \in DOMAIN outFiles
                    /\ outFiles[o.output_file].state = "complete"
                    /\ Len(outFiles[o.output_file].table.rows) = o.rows_converted
                    /\ Len(outFiles[o.output_file].table.columns) = Len(HeaderOf(o.input_file))
        /\ \A path \in DOMAIN outFiles :
              \E n \in Attempted :
                  /\ path = expected(n)
                  /\ Len(outFiles[path].table.columns) = Len(HeaderOf(n))
        /\ Cardinality(DOMAIN outFiles) <= Cardinality(Attempted)
        /\ \A i, j \in 1..Len(input_files) :
              i # j => OutputPath(input_files[i]) # OutputPath(input_files[j])

C12_Witness ==
    /\ pc = "dir_returned"
    /\ dir = {NameA, NameB}
    /\ Len(stats_list) = 2
    /\ \A i \in 1..2 : stats_list[i].errors = <<>>
    /\ DOMAIN outFiles = {NameA \o DotParquet, NameB \o DotParquet}
    /\ Len(outFiles[NameA \o DotParquet].table.columns) = 2
    /\ Len(outFiles[NameB \o DotParquet].table.columns) = 3

\* ---- the Type Resolver (specification InferSpec)
InferDone == ~IsNone(infer) /\ infer.pc = "done"
InputDtype == infer.frame[1].dtypes[1]
InputCells == ColumnCells(infer.frame[1].rows, 1)
Resolved == infer.out[1]
OutputDtype == Resolved.dtypes[1]
OutputCells == ColumnCells(Resolved.rows, 1)
NullTokens == {"", "NA"}
NonNullRaw == {i \in 1..Len(infer.raw) : infer.raw[i] \notin NullTokens}
InferFormats == PossibleDtFormats(InferConfig(infer.call, infer.formats))

\* C13: for every column read by parse_file whose non-null raw values all
\* match ^-?\d+$, and for every datetime format set, infer_dtypes yields Integer, each value is
\* the integer its string denotes, and converting the integers back to
\* strings and resolving again gives the same integers.
C13_IntegerColumns ==
    (/\ InferDone
     /\ infer.call = "parse"
     /\ NonNullRaw # {}
     /\ \A i \in NonNullRaw : infer.raw[i] \in IntLits) =>
        /\ Resolved.ok
        /\ OutputDtype = "Int64"
        /\ \A i \in 1..Len(infer.raw) :
              OutputCells[i] = IF i \in NonNullRaw THEN Num(NumberOf(infer.raw[i])) ELSE NA
        /\ LET strings == [ok |-> TRUE, columns |-> <<"c">>, dtypes |-> <<"object">>,
                           rows |-> [i \in 1..Len(infer.raw) |->
                                       <<IF i \in NonNullRaw
                                         THEN Str(StrOfInt(OutputCells[i][2][1]))
                                         ELSE NA>>]]
           IN  \A lib \in LibChoices :
                  LET again == InferDtypes(strings, InferConfig("frame", infer.formats), lib)
                  IN  /\ again.ok
                      /\ again.dtypes = <<"Int64">>
                      /\ ColumnCells(again.rows, 1) = OutputCells

\* C14: null tokens do not influence the inferred type: a column of integer
\* strings and null tokens read by parse_csv resolves to Integer (not Float,
\* not String), with exactly one null per null token, and the integers kept.
C14_NullTokensKeepInteger ==
    (/\ InferDone
     /\ infer.call = "parse"
     /\ NonNullRaw # {}
     /\ NonNullRaw # 1..Len(infer.raw)
     /\ \A i \in NonNullRaw : infer.raw[i] \in IntLits) =>
        /\ Resolved.ok
        /\ OutputDtype = "Int64"
        /\ \A i \in 1..Len(infer.raw) :
              /\ IsNull(OutputCells[i]) <=> i \notin NonNullRaw
              /\ i \in NonNullRaw => OutputCells[i] = Num(NumberOf(infer.raw[i]))

\* a cell the numeric rule can coerce to a number
Numeric(cell) == cell[1] = "num" \/ (cell[1] = "str" /\ cell[2] \in NumTexts)

\* C15: the rules are applied in the order datetime, numeric, boolean,
\* string: a column whose every non-null value is "1" or "0" resolves to
\* Integer and never to Boolean, and no column whose non-null values are all
\* numbers resolves to Boolean.
C15_NumericBeforeBoolean ==
    (/\ InferDone
     /\ infer.call = "parse"
     /\ NonNullRaw # {}) =>
        /\ (\A i \in NonNullRaw : infer.raw[i] \in {"1", "0"}) =>
              /\ Resolved.ok
              /\ OutputDtype = "Int64"
        /\ (Resolved.ok /\ \A i \in NonNullRaw : Numeric(InputCells[i])) =>
              OutputDtype # "boolean"

\* C16: the datetime formats are tried in the order default, custom...; the
\* first format for which not all results are null is accepted, and the
\* column holds the values parsed with that format, not with a later one.
C16_FirstFormatWins ==
    (/\ InferDone
     /\ infer.call = "parse"
     /\ \E k \in 1..Len(InferFormats) : ~AllNull(ToDatetimeFormat(InputCells, InferFormats[k]))) =>
        LET first == CHOOSE k \in 1..Len(InferFormats) :
                        /\ ~AllNull(ToDatetimeFormat(InputCells, InferFormats[k]))
                        /\ \A m \in 1..(k - 1) :
                              AllNull(ToDatetimeFormat(InputCells, InferFormats[m]))
        IN  /\ Resolved.ok
            /\ OutputDtype = "datetime64[ns]"
            /\ OutputCells = ToDatetimeFormat(InputCells, InferFormats[first])

\* the non-null values of a column do not all satisfy one same candidate type
Mixed(cells, formats) ==
    LET present == {i \in 1..Len(cells) : ~IsNull(cells[i])}
    IN  /\ present # {}
        /\ ~ \A i \in present : Numeric(cells[i])
        /\ ~ \A i \in present : cells[i][1] = "str" /\ LowerText(cells[i][2]) \in BoolTokens
        /\ ~ \A i \in present : cells[i][1] = "str" /\ GuessedLayout(cells[i][2]) # "none"
        /\ ~ \E k \in 1..Len(formats) :
                \A i \in present : cells[i][1] = "str" /\ StrpTime(cells[i][2], formats[k]) # ""

\* C17: type inference never turns a non-null value into null, and a column
\* whose non-null values do not all satisfy one same candidate type resolves
\* to String with every original value kept.
C17_MixedDegradesToString ==
    (/\ InferDone
     /\ infer.call = "parse"
     /\ Resolved.ok) =>
        /\ \A i \in 1..Len(InputCells) : ~IsNull(InputCells[i]) => ~IsNull(OutputCells[i])
        /\ Mixed(InputCells, InferFormats) =>
              /\ OutputDtype = "object"
              /\ OutputCells = InputCells

\* C18: a column with an explicit dtype in the dtype map of the csv options
\* is skipped by infer_dtypes: it keeps the dtype and the values the
\* override produced.
C18_ExplicitDtypeSkipsInference ==
    (InferDone /\ infer.call = "parse_str" /\ NonNullRaw # {}) =>
        /\ Resolved.ok
        /\ OutputDtype = InputDtype
        /\ OutputCells = InputCells

\* C19: infer_dtypes never raises, for any column contents and any datetime
\* format set.
C19_InferNeverRaises ==
    InferDone => Resolved.ok


\* ---- configuration precedence (specification ConfigSpec)
\* the value of the source that has precedence for a key: the environment
\* variable when it is set, else the file's value, else the default
Winning(k) ==
    IF ~IsNone(load.env[k]) THEN load.env[k]
    ELSE IF ~IsNone(load.file[k]) THEN load.file[k]
    ELSE ConfigDefaults[k]

BadExtension == ~IsNone(load.path) /\ Suffix(load.path[1]) \notin ConfigSuffixes
MissingFile == ~IsNone(load.path) /\ ~BadExtension /\ load.path[1] \notin ExistingConfigs
InvalidValue ==
    \/ Upper(Winning("log_level")[1]) \notin ValidLevels
    \/ Winning("engine")[1] \notin {"polars", "pandas"}
    \/ IF IsNone(load.env.sample_rows) THEN Winning("sample_rows")[1] <= 0
       ELSE load.env.sample_rows[1] \in {"0", "-1"}

\* C21: once load_config has been called with a configuration file of an
\* unsupported extension it has raised a ValueError, with a missing file of
\* a supported extension a FileNotFoundError, and with an invalid log level
\* or engine or a non-positive sample_rows in the resolved values a
\* ValueError; in each case main has returned 1 and neither convert_file nor
\* convert_directory has been called.
C21_ConfigErrorsFailFast ==
    (~IsNone(load) /\ load.pc # "start") =>
        /\ BadExtension =>
              /\ load.pc = "raised"
              /\ load.loaded[1] = RaisesError("ValueError")
        /\ MissingFile =>
              /\ load.pc = "raised"
              /\ load.loaded[1] = RaisesError("FileNotFoundError")
        /\ (~BadExtension /\ ~MissingFile /\ InvalidValue) =>
              /\ load.pc = "raised"
              /\ load.loaded[1] = RaisesError("ValueError")
        /\ load.pc = "raised" =>
              /\ load.exit = Some(1)
              /\ ~load.attempted
              /\ IsNone(load.output_dir)

\* load_config has raised on a file that sets sample_rows to 0, with valid
\* values everywhere else
C21_Witness ==
    /\ ~IsNone(load)
    /\ load.pc = "raised"
    /\ load.path = Some(ConfigYaml)
    /\ load.file.sample_rows = Some(0)
    /\ IsNone(load.env.sample_rows)
    /\ IsNone(load.env.log_level)
    /\ load.env.engine = Some("pandas")
    /\ load.exit = Some(1)


\* ---- the order of the stages (specification Spec)
StageOrder == <<"resolve", "sample", "stream", "verify", "profile">>
StreamedTable == outFiles[OutputPath(cur)].table

\* C22: in the streaming path the stages of a file have run in the order
\* resolve, sample, stream, verify, profile, one after the other; verify and
\* profile have run only after a stream that reported success; the frame the
\* stream stage wrote has, for every column the sampler's schema names, the
\* dtype of that schema; and in convert_directory the stages of the file at
\* position idx run when exactly the idx - 1 outcomes of the files before it
\* have been appended, in the order of the files.
C22_StageOrder ==
    (mode # "idle" /\ Engine = "polars") =>
        /\ phases = SubSeq(StageOrder, 1, Len(phases))
        /\ "verify" \in Range(phases) => (~IsNone(stream) /\ stream[1][1])
        /\ "stream" \in Range(phases) => "sample" \in Range(phases)
        /\ ("stream" \in Range(phases) /\ ~IsNone(stream) /\ stream[1][1] /\ ~IsNone(schema)) =>
              \A k \in 1..Len(schema[1]) :
                 \A j \in 1..Len(StreamedTable.columns) :
                    StreamedTable.columns[j] = schema[1][k][1]
                        => StreamedTable.dtypes[j] = schema[1][k][2]
        /\ (mode = "dir" /\ pc # "dir_returned" /\ idx >= 1) =>
              /\ Len(stats_list) = idx - 1
              /\ \A i \in 1..Len(stats_list) : stats_list[i].input_file = input_files[i]

\* the second file of a directory has gone through all five stages, after
\* the first file's outcome was appended, and its stream used the dtype the
\* one-row sample gave to a column whose later rows are not integers
C22_Witness ==
    /\ mode = "dir"
    /\ idx = 2
    /\ Len(stats_list) = 1
    /\ cur = NameB
    /\ pc = "returned"
    /\ phases = StageOrder
    /\ config.sample_rows = 1
    /\ schema = Some(<< <<"k", "Int64">>, <<"v", "String">>, <<"w", "String">> >>)
    /\ StreamedTable.dtypes[1] = "Int64"


\* ---- the revert of the datetime step (specification InferSpec)
\* C23: when formats are configured and the column read by parse_file is
\* not resolved to DateTime (neither the generic attempt nor a format was
\* accepted), the result is what the numeric, boolean and string rules give
\* on the original column: the column the datetime step leaves behind has
\* the original values, nulls and dtype.
C23_RevertKeepsOriginal ==
    (/\ InferDone
     /\ infer.call = "parse"
     /\ InferFormats # <<>>
     /\ NonNullRaw # {}
     /\ Resolved.ok
     /\ OutputDtype # "datetime64[ns]") =>
        \E lib \in LibChoices :
            Column(OutputDtype, OutputCells) = InferAfterDatetime(InputDtype, InputCells, lib)


\* ---- the numeric rule (specification InferSpec)
Present == {i \in 1..Len(InputCells) : ~IsNull(InputCells[i])}
\* the number a non-null cell of the frame coerces to
Coerced(i) == IF InputCells[i][1] = "num" THEN InputCells[i][2]
              ELSE NumberOf(InputCells[i][2])

C25_EmptyColumnIsString ==
    (InferDone /\ infer.call = "parse" /\ infer.raw = <<>>) =>
        /\ Resolved.ok
        /\ OutputDtype \in {"object", "string"}


\* ---- the sampled schema as a hint (specification Spec)
\* the whole file read under the stream stage's options without any hint
Unhinted ==
    LET kwargs == BuildPolarsCsvKwargs(options[1])
    IN  PolarsReadCsv(Content(cur), kwargs.has_header, kwargs.skip_rows, None,
                      kwargs.null_values, None, TRUE)

\* the sample made a column Int64 that holds, further down the file, a
\* value that is not an integer
SampleConflict ==
    /\ ~IsNone(options)
    /\ ~IsNone(schema)
    /\ Unhinted.ok
    /\ \E k \in 1..Len(schema[1]), j \in 1..Len(Unhinted.columns) :
          /\ schema[1][k] = <<Unhinted.columns[j], "Int64">>
          /\ Unhinted.dtypes[j] = "String"

\* C26: when the sampled schema gives a column a type that a later value of
\* the file does not fit, and nothing else fails, the stream stage returns
\* success with the number of data rows of the file, and the outcome
\* convert_file returns has no error and that row count.
C26_SchemaIsHint ==
    (Engine = "polars" /\ SampleConflict /\ faulted = {}) =>
        /\ ~IsNone(stream) =>
              /\ stream[1][1]
              /\ stream[1][2] = Len(Unhinted.rows)
        /\ pc # "raised"
        /\ pc = "returned" =>
              /\ Success(result[1])
              /\ result[1].rows_processed = Len(Unhinted.rows)
              /\ result[1].rows_converted = Len(Unhinted.rows)

\* a.txt has been converted with a one-row sample: column k was sampled as
\* Int64, its third value "z" is not an integer, and the outcome reports
\* the three rows
C26_Witness ==
    /\ cur = NameB
    /\ pc = "returned"
    /\ SampleConflict
    /\ faulted = {}
    /\ config.sample_rows = 1
    /\ Success(result[1])
    /\ result[1].rows_processed = 3
    /\ StreamedTable.rows[3][1] = Null


\* ---- the options of the sampler (specification Spec)
\* C27: for every option set, when the sampler returned a schema and the
\* stream stage wrote the file, the column names of that schema are, in
\* order, the column names the stream stage read.
C27_SamplerReadsLikeStream ==
    (/\ Engine = "polars"
     /\ "stream" \in Range(phases)
     /\ ~IsNone(schema)
     /\ ~IsNone(stream) /\ stream[1][1]) =>
        [k \in 1..Len(schema[1]) |-> schema[1][k][1]] = StreamedTable.columns


\* ---- warnings (specification Spec)
\* C28: every outcome convert_file has returned, and every outcome
\* convert_directory has appended, on the paths of both engines, has an
\* empty warnings list, also when the sampler or the verifier failed and
\* logged a warning.
C28_NoWarningsRecorded ==
    /\ (pc = "returned" /\ ~IsNone(result)) => result[1].warnings = <<>>
    /\ \A i \in 1..Len(stats_list) : stats_list[i].warnings = <<>>

\* a conversion has returned a successful outcome after both the sampler
\* and the verifier failed and logged their warnings
C28_Witness ==
    /\ pc = "returned"
    /\ {"sample", "verify"} \subseteq faulted
    /\ <<"warning", "Failed to analyze sample">> \in log
    /\ <<"warning", "Unable to verify parquet output">> \in log
    /\ Success(result[1])
    /\ result[1].warnings = <<>>


\* ---- the profiling limit (specification Spec)
\* C29: for every integer profiling_column_limit of the configuration
\* dictionary (0, negative, larger than the number of columns), the
\* profiling map of a successful streaming conversion has exactly one entry
\* per column of the output file, and at most max(limit, 0) entries carry
\* computed statistics.
C29_ColumnLimit ==
    (Returned /\ Engine = "polars" /\ Outcome.errors = <<>>) =>
        LET table == outFiles[OutputPath(cur)].table
            stats == Outcome.column_stats
            profiled == {c \in DOMAIN stats : ~IsNone(stats[c].unique_values)}
        IN  /\ DOMAIN stats = Range(table.columns)
            /\ Cardinality(profiled) <= Max(config.profiling_column_limit, 0)


\* ---- extension matching (specification Spec)
\* C30: when convert_directory has returned, every entry of the input
\* directory that convert_file accepts as supported (lower-cased suffix
\* .csv or .txt) has been discovered and has an outcome in the returned
\* list.
C30_SameExtensionMatching ==
    (mode = "dir" /\ pc = "dir_returned") =>
        \A n \in dir :
            Supported(n) =>
                /\ n \in Range(input_files)
                /\ \E i \in 1..Len(stats_list) : stats_list[i].input_file = n

====
